---- MODULE Spec2Model ----
(***************************************************************************)
(* Real-time event stream client of the admin dashboard.                   *)
(*                                                                         *)
(* The reconnecting hook useWebSocket (hooks/useWebSocket.ts, the version  *)
(* with exponential backoff) is modelled as a state machine over the refs  *)
(* of one component instance, the WebSocket objects it created, the        *)
(* browser timers it scheduled, and the two Redux slices it reads (auth)   *)
(* and writes (dashboard).  Every action is one browser task: a React      *)
(* commit (effect cleanup + effect), a timer callback, or a WebSocket      *)
(* event with the handlers attached to that socket.                        *)
(***************************************************************************)
EXTENDS Integers, Sequences, FiniteSets, TLC

\* ------------------------------------------------------------------------
\* Bounds of the model (not program constants)
\* ------------------------------------------------------------------------
MaxNotifs == 2
MaxRenders == 2
MaxEvents == 1

\* ------------------------------------------------------------------------
\* Program constants
\* ------------------------------------------------------------------------
MAX_RECONNECT_ATTEMPTS == 5
INITIAL_RECONNECT_DELAY_MS == 1000
MAX_RECONNECT_DELAY_MS == 30000
CONNECT_DELAY_MS == 100
CAPACITY == 100

NoToken == "null"
Tokens == {"tokA", "tokB"}
\* what localStorage holds when the store is created
InitialTokens == {NoToken, "tokA"}
AuthFailureCodes == {1008, 4001, 4003, 4401}
CloseCodes == {1000, 1006} \cup AuthFailureCodes

GIVE_UP == "Live events disconnected. Refresh page to reconnect."
CONNECTED == "Live events connected"

VARIABLES
  mounted,          \* the owning view (DashboardLayout) is mounted
  enabled,          \* dashboard.liveEventsEnabled, the hook's argument
  token,            \* auth.token
  isAuthenticated,  \* auth.isAuthenticated
  renders,          \* number of dispatches from outside the hook that
                    \* changed the store since the first commit (model
                    \* bound)
  urlOk,            \* whether new WebSocket(wsUrl) accepts the composed URL
  heap,             \* refs, sockets, timers and the pending effect cleanup
                    \* of the hook instance
  recentEvents,     \* dashboard.recentEvents
  notifications,    \* dashboard.notifications
  last              \* the task that produced this state (observation only)

vars == <<mounted, enabled, token, isAuthenticated, renders, urlOk, heap,
          recentEvents, notifications, last>>

Min(a, b) == IF a < b THEN a ELSE b

RECURSIVE Pow2(_)
Pow2(n) == IF n = 0 THEN 1 ELSE 2 * Pow2(n - 1)

\* The closure of one render: the values connect() and the socket callbacks
\* created by it see.
Env(tok, auth, en) == [token |-> tok, isAuthenticated |-> auth, enabled |-> en]

\* The context of one task: the heap, the store fields the hook writes, and
\* the sockets the task called send('ping') on, in order.
Ctx(h, ev, nt) == [h |-> h, ev |-> ev, nt |-> nt, sn |-> << >>]

InitialHeap ==
  [isMountedRef |-> FALSE, isConnectingRef |-> FALSE,
   reconnectAttemptsRef |-> 0, wsRef |-> 0, reconnectTimeoutRef |-> 0,
   pingIntervalRef |-> 0, sockets |-> [i \in {} |-> 0],
   timers |-> << >>, intervals |-> {},
   effectCleanup |-> "none", effectDelayId |-> 0]

\* The pending setTimeout timers, kept in the order they were scheduled.
Pending(h) == {h.timers[i] : i \in DOMAIN h.timers}

\* clearTimeout(id)
clearTimeout(timers, id) == SelectSeq(timers, LAMBDA t : t.id # id)

\* Timer and socket handles are opaque: a new one is any handle that is not
\* in use and not held in a ref or closure.  The least such is taken.
Least(S) == CHOOSE n \in S : \A m \in S : n <= m

FreshTimerId(h) ==
  LET used == {t.id : t \in Pending(h)} \cup h.intervals \cup
              {h.reconnectTimeoutRef, h.pingIntervalRef, h.effectDelayId}
  IN Least((1..(Cardinality(used) + 1)) \ used)

FreshSocketId(h) ==
  Least((1..(Cardinality(DOMAIN h.sockets) + 1)) \ DOMAIN h.sockets)

\* getReconnectDelay without the cap
getReconnectDelayNoCap(n) == INITIAL_RECONNECT_DELAY_MS * Pow2(n)

\* getReconnectDelay, reading reconnectAttemptsRef.current = n
getReconnectDelay(n) ==
  Min(INITIAL_RECONNECT_DELAY_MS * Pow2(n), MAX_RECONNECT_DELAY_MS)

\* WebSocket.close(): only a CONNECTING or OPEN socket starts closing
wsClose(sock) ==
  IF sock.readyState \in {"CONNECTING", "OPEN"}
  THEN [sock EXCEPT !.readyState = "CLOSING"]
  ELSE sock

\* A socket the hook no longer references is dropped from the heap once no
\* event of it can reach the hook: it is CLOSED, or it is CLOSING (only its
\* close event is still to come) with every handler detached.
Detached(sock) ==
  ~sock.onopen /\ ~sock.onmessage /\ ~sock.onclose /\ ~sock.onerror

Collect(h) ==
  LET keep == {i \in DOMAIN h.sockets :
                 \/ i = h.wsRef
                 \/ h.sockets[i].readyState \in {"CONNECTING", "OPEN"}
                 \/ h.sockets[i].readyState = "CLOSING"
                      /\ ~Detached(h.sockets[i])}
  IN [h EXCEPT !.sockets = [i \in keep |-> h.sockets[i]]]

\* the identifiers of the notifications in the list
NotificationIds(nt) == {nt[i].id : i \in DOMAIN nt}

\* crypto.randomUUID(): an identifier that no notification of the list
\* carries.  Identifiers are opaque; the least such number is taken.
FreshNotificationId(nt) == Least((1..(Len(nt) + 1)) \ NotificationIds(nt))

\* dashboardSlice.addNotification (the timestamp it stamps the entry with is
\* read by no reducer and by neither hook, and is not kept)
addNotification(nt, type, message) ==
  Append(nt, [id |-> FreshNotificationId(nt), type |-> type,
              message |-> message])

\* dashboardSlice.removeNotification
removeNotification(nt, id) == SelectSeq(nt, LAMBDA n : n.id # id)

\* dashboardSlice.clearNotifications
clearNotifications(nt) == << >>

\* dashboardSlice.clearEvents
clearEvents(ev) == << >>

\* dashboardSlice.addEvent keeping 100 older events instead of 99
addEventKeepsOneMore(ev, e) == <<e>> \o SubSeq(ev, 1, Min(Len(ev), CAPACITY))

\* dashboardSlice.addEvent
addEvent(ev, e) == <<e>> \o SubSeq(ev, 1, Min(Len(ev), CAPACITY - 1))

\* cleanup() without the close() call on the handle it drops
cleanupNoClose(h) ==
  LET h1 == IF h.reconnectTimeoutRef # 0
            THEN [h EXCEPT !.timers = clearTimeout(@, h.reconnectTimeoutRef),
                           !.reconnectTimeoutRef = 0]
            ELSE h
      h2 == IF h1.pingIntervalRef # 0
            THEN [h1 EXCEPT !.intervals = @ \ {h1.pingIntervalRef},
                            !.pingIntervalRef = 0]
            ELSE h1
      h3 == IF h2.wsRef # 0
            THEN [h2 EXCEPT
                    !.sockets[h2.wsRef] =
                       [@ EXCEPT !.onclose = FALSE, !.onerror = FALSE,
                                 !.onmessage = FALSE, !.onopen = FALSE],
                    !.wsRef = 0]
            ELSE h2
  IN [h3 EXCEPT !.isConnectingRef = FALSE]

\* cleanup()
cleanup(h) ==
  LET h1 == IF h.reconnectTimeoutRef # 0
            THEN [h EXCEPT !.timers = clearTimeout(@, h.reconnectTimeoutRef),
                           !.reconnectTimeoutRef = 0]
            ELSE h
      h2 == IF h1.pingIntervalRef # 0
            THEN [h1 EXCEPT !.intervals = @ \ {h1.pingIntervalRef},
                            !.pingIntervalRef = 0]
            ELSE h1
      h3 == IF h2.wsRef # 0
            THEN [h2 EXCEPT
                    !.sockets[h2.wsRef] =
                       wsClose([@ EXCEPT !.onclose = FALSE, !.onerror = FALSE,
                                         !.onmessage = FALSE, !.onopen = FALSE]),
                    !.wsRef = 0]
            ELSE h2
  IN [h3 EXCEPT !.isConnectingRef = FALSE]

\* wsRef.current?.readyState read as if the ref were always empty
ReadyStateOfRefEmpty(h) == "none"

\* wsRef.current?.readyState
ReadyStateOfRef(h) ==
  IF h.wsRef = 0 THEN "none" ELSE h.sockets[h.wsRef].readyState

\* connect() replacing the existing handle without detaching its onclose
connectKeepsOnclose(c, env) ==
  LET h == c.h IN
  IF ~h.isMountedRef THEN c
  ELSE IF env.token = NoToken \/ ~env.isAuthenticated \/ ~env.enabled THEN c
  ELSE IF h.isConnectingRef THEN c
  ELSE IF ReadyStateOfRef(h) = "OPEN" THEN c
  ELSE IF ReadyStateOfRef(h) = "CONNECTING" THEN c
  ELSE IF h.reconnectAttemptsRef >= MAX_RECONNECT_ATTEMPTS
       THEN [c EXCEPT !.nt = addNotification(@, "warning", GIVE_UP)]
  ELSE
    LET h1 == [h EXCEPT !.isConnectingRef = TRUE]
        h2 == IF h1.wsRef # 0
              THEN [h1 EXCEPT !.sockets[h1.wsRef] = wsClose(@), !.wsRef = 0]
              ELSE h1
        id == FreshSocketId(h2)
        ws == [readyState |-> "CONNECTING", onopen |-> TRUE,
               onmessage |-> TRUE, onclose |-> TRUE, onerror |-> TRUE,
               env |-> env]
    IN IF urlOk
       THEN [c EXCEPT !.h = [h2 EXCEPT
                               !.sockets = (id :> ws) @@ @,
                               !.wsRef = id]]
       ELSE [c EXCEPT !.h = [h2 EXCEPT !.isConnectingRef = FALSE]]

\* connect() without the test of the attempt limit
connectNoLimit(c, env) ==
  LET h == c.h IN
  IF ~h.isMountedRef THEN c
  ELSE IF env.token = NoToken \/ ~env.isAuthenticated \/ ~env.enabled THEN c
  ELSE IF h.isConnectingRef THEN c
  ELSE IF ReadyStateOfRef(h) = "OPEN" THEN c
  ELSE IF ReadyStateOfRef(h) = "CONNECTING" THEN c
  ELSE
    LET h1 == [h EXCEPT !.isConnectingRef = TRUE]
        h2 == IF h1.wsRef # 0
              THEN [h1 EXCEPT
                      !.sockets[h1.wsRef] = wsClose([@ EXCEPT !.onclose = FALSE]),
                      !.wsRef = 0]
              ELSE h1
        id == FreshSocketId(h2)
        ws == [readyState |-> "CONNECTING", onopen |-> TRUE,
               onmessage |-> TRUE, onclose |-> TRUE, onerror |-> TRUE,
               env |-> env]
    IN IF urlOk
       THEN [c EXCEPT !.h = [h2 EXCEPT
                               !.sockets = (id :> ws) @@ @,
                               !.wsRef = id]]
       ELSE [c EXCEPT !.h = [h2 EXCEPT !.isConnectingRef = FALSE]]

\* connect() of the render whose closure is env
connect(c, env) ==
  LET h == c.h IN
  IF ~h.isMountedRef THEN c
  ELSE IF env.token = NoToken \/ ~env.isAuthenticated \/ ~env.enabled THEN c
  ELSE IF h.isConnectingRef THEN c
  ELSE IF ReadyStateOfRef(h) = "OPEN" THEN c
  ELSE IF ReadyStateOfRef(h) = "CONNECTING" THEN c
  ELSE IF h.reconnectAttemptsRef >= MAX_RECONNECT_ATTEMPTS
       THEN [c EXCEPT !.nt = addNotification(@, "warning", GIVE_UP)]
  ELSE
    LET h1 == [h EXCEPT !.isConnectingRef = TRUE]
        h2 == IF h1.wsRef # 0
              THEN [h1 EXCEPT
                      !.sockets[h1.wsRef] = wsClose([@ EXCEPT !.onclose = FALSE]),
                      !.wsRef = 0]
              ELSE h1
        id == FreshSocketId(h2)
        ws == [readyState |-> "CONNECTING", onopen |-> TRUE,
               onmessage |-> TRUE, onclose |-> TRUE, onerror |-> TRUE,
               env |-> env]
    IN IF urlOk
       THEN [c EXCEPT !.h = [h2 EXCEPT
                               !.sockets = (id :> ws) @@ @,
                               !.wsRef = id]]
       ELSE [c EXCEPT !.h = [h2 EXCEPT !.isConnectingRef = FALSE]]

\* ws.onopen without the reset of reconnectAttempts
onopenNoReset(c, s) ==
  LET h == c.h IN
  IF ~h.isMountedRef
  THEN [c EXCEPT !.h.sockets[s] = wsClose(@)]
  ELSE
    LET h1 == [h EXCEPT !.isConnectingRef = FALSE]
        h2 == IF h1.pingIntervalRef # 0
              THEN [h1 EXCEPT !.intervals = @ \ {h1.pingIntervalRef}]
              ELSE h1
        p == FreshTimerId([h2 EXCEPT !.pingIntervalRef = 0])
        h3 == [h2 EXCEPT !.intervals = @ \cup {p}, !.pingIntervalRef = p]
    IN [c EXCEPT !.h = h3, !.nt = addNotification(@, "success", CONNECTED)]

\* ws.onopen of socket s
onopen(c, s) ==
  LET h == c.h IN
  IF ~h.isMountedRef
  THEN [c EXCEPT !.h.sockets[s] = wsClose(@)]
  ELSE
    LET h1 == [h EXCEPT !.isConnectingRef = FALSE, !.reconnectAttemptsRef = 0]
        h2 == IF h1.pingIntervalRef # 0
              THEN [h1 EXCEPT !.intervals = @ \ {h1.pingIntervalRef}]
              ELSE h1
        p == FreshTimerId([h2 EXCEPT !.pingIntervalRef = 0])
        h3 == [h2 EXCEPT !.intervals = @ \cup {p}, !.pingIntervalRef = p]
    IN [c EXCEPT !.h = h3, !.nt = addNotification(@, "success", CONNECTED)]

\* the reconnect decision without the wasClean test
ShouldRetryIgnoresClean(wasClean, code) ==
  ~(code = 1008 \/ code = 4001 \/ code = 4003 \/ code = 4401)

\* the reconnect decision with code 4401 left out
ShouldRetryMisses4401(wasClean, code) ==
  ~(wasClean \/ code = 1008 \/ code = 4001 \/ code = 4003)

\* the reconnect decision with the abnormal-closure code 1006 listed as well
ShouldRetryStops1006(wasClean, code) ==
  ~(wasClean \/ code = 1006 \/ code = 1008 \/ code = 4001 \/ code = 4003
      \/ code = 4401)

\* the reconnect decision of ws.onclose
ShouldRetry(wasClean, code) ==
  ~(wasClean \/ code = 1008 \/ code = 4001 \/ code = 4003 \/ code = 4401)

\* ws.onclose counting the attempt without scheduling the reconnect
oncloseNoTimer(c, s, wasClean, code) ==
  LET h == c.h
      env == h.sockets[s].env
  IN
  IF ~h.isMountedRef THEN c
  ELSE
    LET h1 == [h EXCEPT !.isConnectingRef = FALSE, !.wsRef = 0]
        h2 == IF h1.pingIntervalRef # 0
              THEN [h1 EXCEPT !.intervals = @ \ {h1.pingIntervalRef},
                              !.pingIntervalRef = 0]
              ELSE h1
    IN IF ~ShouldRetry(wasClean, code) THEN [c EXCEPT !.h = h2]
       ELSE IF env.enabled /\ h2.isMountedRef
       THEN [c EXCEPT !.h = [h2 EXCEPT !.reconnectAttemptsRef = @ + 1]]
       ELSE [c EXCEPT !.h = h2]

\* ws.onclose of socket s, for the close event (wasClean, code)
onclose(c, s, wasClean, code) ==
  LET h == c.h
      env == h.sockets[s].env
  IN
  IF ~h.isMountedRef THEN c
  ELSE
    LET h1 == [h EXCEPT !.isConnectingRef = FALSE, !.wsRef = 0]
        h2 == IF h1.pingIntervalRef # 0
              THEN [h1 EXCEPT !.intervals = @ \ {h1.pingIntervalRef},
                              !.pingIntervalRef = 0]
              ELSE h1
    IN IF ~ShouldRetry(wasClean, code) THEN [c EXCEPT !.h = h2]
       ELSE IF env.enabled /\ h2.isMountedRef
       THEN LET n == h2.reconnectAttemptsRef + 1
                t == [id |-> FreshTimerId(h2), kind |-> "reconnect", env |-> env,
                      delay |-> getReconnectDelay(n)]
            IN [c EXCEPT !.h = [h2 EXCEPT !.reconnectAttemptsRef = n,
                                          !.timers = Append(@, t),
                                          !.reconnectTimeoutRef = t.id]]
       ELSE [c EXCEPT !.h = h2]

\* ws.onerror
onerror(c) == [c EXCEPT !.h.isConnectingRef = FALSE]

\* ------------------------------------------------------------------------
\* Inbound frames.  A frame is the text of one message event; the fields
\* below are what JSON.parse makes of it.  UNDEF stands for a property that
\* is absent (undefined); "" is the empty string, which is falsy as well.
\* ------------------------------------------------------------------------
UNDEF == "undefined"
NULL == "null"
UUID == "randomUUID"

Falsy(x) == x \in {UNDEF, "", NULL}

\* JavaScript  x || d
OrElse(x, d) == IF Falsy(x) THEN d ELSE x

Frame(parse, type, ts, hasPayload, id, action, sev, actor, target, msg, meta) ==
  [parse |-> parse, type |-> type, timestamp |-> ts, hasPayload |-> hasPayload,
   id |-> id, action |-> action, severity |-> sev, actor_id |-> actor,
   target |-> target, message |-> msg, metadata |-> meta]

\* parse is "throws" (not JSON), "null" (the JSON text null, whose fields
\* cannot be read) or "value"
BareFrame(parse, type) ==
  Frame(parse, type, UNDEF, FALSE, UNDEF, UNDEF, UNDEF, UNDEF, UNDEF, UNDEF,
        UNDEF)

EventFrame(type, severity, message) ==
  Frame("value", type, "T", TRUE, UNDEF, UNDEF, severity, UNDEF, UNDEF,
        message, UNDEF)

Frames ==
  { BareFrame("throws", UNDEF), BareFrame("value", "heartbeat"),
    BareFrame("value", "connected"), BareFrame("value", "risk_alert"),
    EventFrame("risk_alert", "critical", "m"),
    EventFrame("login", UNDEF, UNDEF) }

\* the DashboardEvent with the action defaulting to the empty string
dashboardEventBlankAction(f) ==
  [id |-> OrElse(f.id, UUID),
   type |-> f.type,
   action |-> OrElse(f.action, ""),
   severity |-> OrElse(f.severity, "info"),
   actor_id |-> OrElse(f.actor_id, ""),
   target |-> OrElse(f.target, NULL),
   message |-> OrElse(f.message, f.type),
   timestamp |-> f.timestamp,
   metadata |-> OrElse(f.metadata, NULL)]

\* the DashboardEvent built by ws.onmessage
dashboardEvent(f) ==
  [id |-> OrElse(f.id, UUID),
   type |-> f.type,
   action |-> OrElse(f.action, f.type),
   severity |-> OrElse(f.severity, "info"),
   actor_id |-> OrElse(f.actor_id, ""),
   target |-> OrElse(f.target, NULL),
   message |-> OrElse(f.message, f.type),
   timestamp |-> f.timestamp,
   metadata |-> OrElse(f.metadata, NULL)]

\* ws.onmessage closing the transport on a frame it cannot parse
onmessageClosesOnGarbage(c, s, f) ==
  IF ~c.h.isMountedRef THEN c
  ELSE IF f.parse # "value" THEN [c EXCEPT !.h.sockets[s] = wsClose(@)]
  ELSE IF f.type = "heartbeat" THEN [c EXCEPT !.sn = Append(@, s)]
  ELSE IF f.type = "connected" \/ f.type = "pong" THEN c
  ELSE IF ~Falsy(f.type) /\ f.hasPayload
  THEN LET e == dashboardEvent(f)
           c1 == [c EXCEPT !.ev = addEvent(@, e)]
       IN IF e.severity = "high" \/ e.severity = "critical"
          THEN [c1 EXCEPT !.nt = addNotification(@,
                   IF e.severity = "critical" THEN "error" ELSE "warning",
                   e.message)]
          ELSE c1
  ELSE c

\* ws.onmessage testing for an event before testing for a control frame
onmessagePayloadFirst(c, s, f) ==
  IF ~c.h.isMountedRef THEN c
  ELSE IF f.parse # "value" THEN c
  ELSE IF ~Falsy(f.type) /\ f.hasPayload
  THEN LET e == dashboardEvent(f)
           c1 == [c EXCEPT !.ev = addEvent(@, e)]
       IN IF e.severity = "high" \/ e.severity = "critical"
          THEN [c1 EXCEPT !.nt = addNotification(@,
                   IF e.severity = "critical" THEN "error" ELSE "warning",
                   e.message)]
          ELSE c1
  ELSE IF f.type = "heartbeat" THEN [c EXCEPT !.sn = Append(@, s)]
  ELSE c

\* ws.onmessage accepting a frame without a payload
onmessageNoPayloadTest(c, s, f) ==
  IF ~c.h.isMountedRef THEN c
  ELSE IF f.parse # "value" THEN c
  ELSE IF f.type = "heartbeat" THEN [c EXCEPT !.sn = Append(@, s)]
  ELSE IF f.type = "connected" \/ f.type = "pong" THEN c
  ELSE IF ~Falsy(f.type)
  THEN LET e == dashboardEvent(f)
           c1 == [c EXCEPT !.ev = addEvent(@, e)]
       IN IF e.severity = "high" \/ e.severity = "critical"
          THEN [c1 EXCEPT !.nt = addNotification(@,
                   IF e.severity = "critical" THEN "error" ELSE "warning",
                   e.message)]
          ELSE c1
  ELSE c

\* ws.onmessage with the kinds of the two notifications exchanged
onmessageSwappedKinds(c, s, f) ==
  IF ~c.h.isMountedRef THEN c
  ELSE IF f.parse # "value" THEN c
  ELSE IF f.type = "heartbeat" THEN [c EXCEPT !.sn = Append(@, s)]
  ELSE IF f.type = "connected" \/ f.type = "pong" THEN c
  ELSE IF ~Falsy(f.type) /\ f.hasPayload
  THEN LET e == dashboardEvent(f)
           c1 == [c EXCEPT !.ev = addEvent(@, e)]
       IN IF e.severity = "high" \/ e.severity = "critical"
          THEN [c1 EXCEPT !.nt = addNotification(@,
                   IF e.severity = "critical" THEN "warning" ELSE "error",
                   e.message)]
          ELSE c1
  ELSE c

\* ws.onmessage of socket s for frame f
onmessage(c, s, f) ==
  IF ~c.h.isMountedRef THEN c
  ELSE IF f.parse # "value" THEN c
  ELSE IF f.type = "heartbeat" THEN [c EXCEPT !.sn = Append(@, s)]
  ELSE IF f.type = "connected" \/ f.type = "pong" THEN c
  ELSE IF ~Falsy(f.type) /\ f.hasPayload
  THEN LET e == dashboardEvent(f)
           c1 == [c EXCEPT !.ev = addEvent(@, e)]
       IN IF e.severity = "high" \/ e.severity = "critical"
          THEN [c1 EXCEPT !.nt = addNotification(@,
                   IF e.severity = "critical" THEN "error" ELSE "warning",
                   e.message)]
          ELSE c1
  ELSE c

\* ws.onmessage of the fixed-delay hook (it has no mounted flag)
onmessageFixed(c, s, f) ==
  IF f.parse # "value" THEN c
  ELSE IF f.type = "heartbeat" THEN [c EXCEPT !.sn = Append(@, s)]
  ELSE IF f.type = "connected" \/ f.type = "pong" THEN c
  ELSE IF ~Falsy(f.type) /\ f.hasPayload
  THEN LET e == dashboardEvent(f)
           c1 == [c EXCEPT !.ev = addEvent(@, e)]
       IN IF e.severity = "high" \/ e.severity = "critical"
          THEN [c1 EXCEPT !.nt = addNotification(@,
                   IF e.severity = "critical" THEN "error" ELSE "warning",
                   e.message)]
          ELSE c1
  ELSE c

\* ------------------------------------------------------------------------
\* Effects
\* ------------------------------------------------------------------------

\* the cleanup returned by the previous run of the main effect
mainEffectCleanup(h) ==
  IF h.effectCleanup = "clearDelay"
  THEN [h EXCEPT !.timers = clearTimeout(@, h.effectDelayId)]
  ELSE cleanup([h EXCEPT !.isMountedRef = FALSE])

\* body of the main effect, run with the closure env of the new render
mainEffect(h, env) ==
  LET h1 == [h EXCEPT !.isMountedRef = TRUE, !.effectDelayId = 0] IN
  IF env.enabled /\ env.isAuthenticated /\ env.token # NoToken
  THEN LET d == FreshTimerId(h1) IN
       [h1 EXCEPT !.timers = Append(@, [id |-> d, kind |-> "connectDelay",
                                        env |-> env,
                                        delay |-> CONNECT_DELAY_MS]),
                  !.effectCleanup = "clearDelay", !.effectDelayId = d]
  ELSE [h1 EXCEPT !.effectCleanup = "full"]

\* the cleanup of the second effect, run on unmount only
unmountEffectCleanup(h) == cleanup([h EXCEPT !.isMountedRef = FALSE])

External == <<mounted, enabled, token, isAuthenticated, renders, urlOk>>

Here == Ctx(heap, recentEvents, notifications)

\* The task ends: its writes become the state, and last records what the
\* task was (its kind, the close event's wasClean and whether its code is an
\* auth-failure code, whether a callback of the hook ran) and what it sent.
Commit(c, op, clean, code, ran) ==
  /\ Len(c.nt) <= MaxNotifs
  /\ Len(c.ev) <= MaxEvents
  /\ heap' = Collect(c.h)
  /\ recentEvents' = c.ev
  /\ notifications' = c.nt
  /\ last' = [op |-> op, wasClean |-> clean,
              auth |-> code \in AuthFailureCodes, ran |-> ran, sent |-> c.sn]

\* A dispatch that writes the hook's inputs in the store.  While the view is
\* mounted it renders again, and if an input changed the previous effect's
\* cleanup runs, then the effect of the new render.  After the unmount only
\* the store changes.
Rerender(en, tok, auth, op) ==
  /\ renders < MaxRenders
  /\ renders' = renders + 1
  /\ LET runs == /\ mounted
                 /\ <<en, tok, auth>> # <<enabled, token, isAuthenticated>>
     IN Commit(IF runs
               THEN [Here EXCEPT
                       !.h = mainEffect(mainEffectCleanup(heap),
                                        Env(tok, auth, en))]
               ELSE Here,
               op, FALSE, 0, runs)
  /\ enabled' = en /\ token' = tok /\ isAuthenticated' = auth
  /\ UNCHANGED <<mounted, urlOk>>

\* dashboardSlice.toggleLiveEvents
ToggleLiveEvents ==
  Rerender(~enabled, token, isAuthenticated, "toggleLiveEvents")

\* authSlice.setCredentials
SetCredentials == \E t \in Tokens : Rerender(enabled, t, TRUE, "setCredentials")

\* authSlice.logout
Logout == Rerender(enabled, NoToken, FALSE, "logout")

\* dispatch(clearEvents())
ClearEvents ==
  /\ renders < MaxRenders /\ renders' = renders + 1
  /\ Commit([Here EXCEPT !.ev = clearEvents(@)],
            "clearEvents", FALSE, 0, FALSE)
  /\ UNCHANGED <<mounted, enabled, token, isAuthenticated, urlOk>>

\* dispatch(removeNotification(id)) for the id of a notification in the list
\* or for one that is not (0).  The owning view, while mounted, selects
\* state.dashboard and renders again; the hook's inputs are the same, so no
\* effect runs.
RemoveNotification ==
  \E id \in NotificationIds(notifications) \cup {0} :
    /\ renders < MaxRenders /\ renders' = renders + 1
    /\ Commit([Here EXCEPT !.nt = removeNotification(@, id)],
              "removeNotification", FALSE, 0, FALSE)
    /\ UNCHANGED <<mounted, enabled, token, isAuthenticated, urlOk>>

\* dispatch(clearNotifications())
ClearNotifications ==
  /\ renders < MaxRenders /\ renders' = renders + 1
  /\ Commit([Here EXCEPT !.nt = clearNotifications(@)],
            "clearNotifications", FALSE, 0, FALSE)
  /\ UNCHANGED <<mounted, enabled, token, isAuthenticated, urlOk>>

\* The owning view unmounts: both effects' cleanups run, in order.
Unmount ==
  /\ mounted
  /\ mounted' = FALSE
  /\ Commit([Here EXCEPT
               !.h = unmountEffectCleanup(mainEffectCleanup(heap))],
            "unmount", FALSE, 0, TRUE)
  /\ UNCHANGED <<enabled, token, isAuthenticated, renders, urlOk>>

\* ------------------------------------------------------------------------
\* Timers
\* ------------------------------------------------------------------------

\* A setTimeout callback runs: the effect's delayed connect or a reconnect.
\* Both callbacks are  if (isMountedRef.current) connect()
\* A timer never runs before one that was scheduled earlier with an equal or
\* shorter delay; apart from that, time is not modelled.
TimerFires ==
  \E k \in DOMAIN heap.timers :
    LET t == heap.timers[k]
        h1 == [heap EXCEPT !.timers = clearTimeout(@, t.id)]
        c1 == Ctx(h1, recentEvents, notifications)
    IN /\ \A j \in 1..(k - 1) : heap.timers[j].delay > t.delay
       /\ Commit(IF h1.isMountedRef THEN connect(c1, t.env) ELSE c1,
                 t.kind, FALSE, 0, h1.isMountedRef)
       /\ UNCHANGED External

\* The setInterval callback of ws.onopen runs.
PingTick ==
  \E p \in heap.intervals :
    /\ Commit(IF ReadyStateOfRef(heap) = "OPEN"
              THEN [Here EXCEPT !.sn = Append(@, heap.wsRef)]
              ELSE Here,
              "pingTick", FALSE, 0, TRUE)
    /\ UNCHANGED External

\* ------------------------------------------------------------------------
\* WebSocket events
\* ------------------------------------------------------------------------
\* The connection is established: readyState becomes OPEN, open is fired.
SocketOpens ==
  \E s \in DOMAIN heap.sockets :
    /\ heap.sockets[s].readyState = "CONNECTING"
    /\ LET ran == heap.sockets[s].onopen
           c1 == Ctx([heap EXCEPT !.sockets[s].readyState = "OPEN"],
                     recentEvents, notifications)
       IN Commit(IF ran THEN onopen(c1, s) ELSE c1, "open", FALSE, 0, ran)
    /\ UNCHANGED External

\* A message is received on an OPEN socket.
SocketMessage ==
  \E s \in DOMAIN heap.sockets, f \in Frames :
    /\ heap.sockets[s].readyState = "OPEN"
    /\ LET ran == heap.sockets[s].onmessage IN
         Commit(IF ran THEN onmessage(Here, s, f) ELSE Here,
                "message", FALSE, 0, ran)
    /\ UNCHANGED External

\* The server starts the closing handshake: readyState becomes CLOSING.
SocketClosing ==
  \E s \in DOMAIN heap.sockets :
    /\ heap.sockets[s].readyState = "OPEN"
    /\ Commit([Here EXCEPT !.h.sockets[s].readyState = "CLOSING"],
              "closing", FALSE, 0, FALSE)
    /\ UNCHANGED External

\* The connection is closed: readyState becomes CLOSED, then error is fired
\* if the connection failed, then close is fired, all in one task.  A
\* connection that was never established cannot close cleanly.
SocketCloses ==
  \E s \in DOMAIN heap.sockets, wasClean \in BOOLEAN, code \in CloseCodes,
     failed \in BOOLEAN :
    /\ heap.sockets[s].readyState # "CLOSED"
    /\ heap.sockets[s].readyState = "CONNECTING" => ~wasClean /\ code = 1006
    /\ failed => ~wasClean
    /\ LET sock == heap.sockets[s]
           c1 == Ctx([heap EXCEPT !.sockets[s].readyState = "CLOSED"],
                     recentEvents, notifications)
           c2 == IF failed /\ sock.onerror THEN onerror(c1) ELSE c1
       IN Commit(IF sock.onclose THEN onclose(c2, s, wasClean, code) ELSE c2,
                 "close", wasClean, code, sock.onclose)
    /\ UNCHANGED External

\* ------------------------------------------------------------------------
\* Specification
\* ------------------------------------------------------------------------

\* The state after the first commit of the owning view.
Init ==
  /\ mounted = TRUE
  /\ enabled \in BOOLEAN
  /\ token \in InitialTokens
  /\ isAuthenticated = (token # NoToken)
  /\ urlOk \in BOOLEAN
  /\ renders = 0
  /\ heap = mainEffect(InitialHeap, Env(token, isAuthenticated, enabled))
  /\ recentEvents = << >>
  /\ notifications = << >>
  /\ last = [op |-> "mount", wasClean |-> FALSE, auth |-> FALSE, ran |-> TRUE,
             sent |-> << >>]

Next ==
  \/ ToggleLiveEvents
  \/ SetCredentials
  \/ Logout
  \/ ClearEvents
  \/ RemoveNotification
  \/ ClearNotifications
  \/ Unmount
  \/ TimerFires
  \/ PingTick
  \/ SocketOpens
  \/ SocketMessage
  \/ SocketClosing
  \/ SocketCloses

Spec == Init /\ [][Next]_vars

\* ------------------------------------------------------------------------
\* Vocabulary of the properties
\* ------------------------------------------------------------------------
LiveStates == {"CONNECTING", "OPEN"}

\* the transports of the hook that are CONNECTING or OPEN
Live(h) == {i \in DOMAIN h.sockets : h.sockets[i].readyState \in LiveStates}

RefIsLive(h) == h.wsRef # 0 /\ h.sockets[h.wsRef].readyState \in LiveStates

ReconnectTimers(h) == {t \in Pending(h) : t.kind = "reconnect"}

\* the step created a transport
CreatesSocket == DOMAIN heap'.sockets \ DOMAIN heap.sockets # {}

\* the step scheduled exactly one reconnect timer and recorded it in the ref
SchedulesOneReconnect ==
  \E t \in Pending(heap') \ Pending(heap) :
    /\ heap'.timers = Append(heap.timers, t)
    /\ t.kind = "reconnect"
    /\ heap'.reconnectTimeoutRef = t.id

\* the step scheduled no timer
SchedulesNothing == Pending(heap') \subseteq Pending(heap)

\* the dispatches of the panels, in which the hook takes no part
StoreOps == {"clearEvents", "removeNotification", "clearNotifications"}

\* the notifications without their identifiers
Feed(nt) == [i \in DOMAIN nt |-> [type |-> nt[i].type,
                                  message |-> nt[i].message]]

\* the hook dispatched nothing to the store and sent nothing in the step
Silent ==
  \/ last'.op \in StoreOps
  \/ /\ recentEvents' = recentEvents
     /\ notifications' = notifications
     /\ last'.sent = << >>

TimerOps == {"connectDelay", "reconnect"}

\* the give-up notifications emitted since the last successful open (every
\* open that resets reconnectAttempts also appends the connected notification)
GiveUps == Cardinality({i \in DOMAIN notifications :
                          /\ notifications[i].message = GIVE_UP
                          /\ \A j \in DOMAIN notifications :
                                notifications[j].message = CONNECTED => j < i})

\* ------------------------------------------------------------------------
\* C1: in every reachable state at most one transport created by the hook is
\* CONNECTING or OPEN, and if one is, it is the one wsRef refers to.
\* ------------------------------------------------------------------------
C1_OneLiveTransport ==
  /\ Cardinality(Live(heap)) <= 1
  /\ \A i \in Live(heap) : i = heap.wsRef

\* a live current transport next to an older handle that is still closing
C1_Witness ==
  /\ RefIsLive(heap)
  /\ \E i \in DOMAIN heap.sockets :
        i # heap.wsRef /\ heap.sockets[i].readyState = "CLOSING"

\* ------------------------------------------------------------------------
\* C2: connect() called while the current transport is CONNECTING or OPEN is
\* a no-op: no transport is created, the existing one is untouched, and
\* reconnectAttempts, the timer refs, the keepalive timer, the event buffer and
\* the notification feed are unchanged (only the timer that made the call is
\* gone).
\* ------------------------------------------------------------------------
C2_ConnectWhileLiveIsNoOp ==
  [][ (last'.op \in TimerOps /\ last'.ran /\ RefIsLive(heap)) =>
        /\ heap'.sockets = heap.sockets
        /\ heap'.wsRef = heap.wsRef
        /\ heap'.reconnectAttemptsRef = heap.reconnectAttemptsRef
        /\ heap'.reconnectTimeoutRef = heap.reconnectTimeoutRef
        /\ heap'.pingIntervalRef = heap.pingIntervalRef
        /\ heap'.intervals = heap.intervals
        /\ heap'.isConnectingRef = heap.isConnectingRef
        /\ SchedulesNothing
        /\ Cardinality(Pending(heap) \ Pending(heap')) = 1
        /\ Silent ]_vars

\* connect() has just been called by a timer while the transport was OPEN
C2_Witness ==
  /\ last.op \in TimerOps /\ last.ran
  /\ heap.wsRef # 0 /\ heap.sockets[heap.wsRef].readyState = "OPEN"

\* ------------------------------------------------------------------------
\* C3: a close event with wasClean = true, whatever its code, schedules no
\* reconnect timer, leaves reconnectAttempts unchanged and creates no
\* transport.
\* ------------------------------------------------------------------------
C3_CleanCloseNoReconnect ==
  [][ (last'.op = "close" /\ last'.wasClean) =>
        /\ SchedulesNothing
        /\ heap'.reconnectTimeoutRef = heap.reconnectTimeoutRef
        /\ heap'.reconnectAttemptsRef = heap.reconnectAttemptsRef
        /\ ~CreatesSocket ]_vars

\* onclose has just handled a clean close
C3_Witness ==
  /\ last.op = "close" /\ last.wasClean /\ last.ran
  /\ heap.wsRef = 0

\* ------------------------------------------------------------------------
\* C4: a close event whose code is an auth-failure code, even with
\* wasClean = false, schedules no reconnect timer and leaves reconnectAttempts
\* unchanged; after the hook handled it there is no transport handle and no
\* keepalive timer.
\* ------------------------------------------------------------------------
C4_AuthCloseNoReconnect ==
  [][ (last'.op = "close" /\ last'.auth) =>
        /\ SchedulesNothing
        /\ heap'.reconnectTimeoutRef = heap.reconnectTimeoutRef
        /\ heap'.reconnectAttemptsRef = heap.reconnectAttemptsRef
        /\ ~CreatesSocket
        /\ last'.ran =>
             /\ heap'.wsRef = 0
             /\ heap'.pingIntervalRef = 0
             /\ heap'.intervals = {}
             /\ Live(heap') = {} ]_vars

\* onclose has just handled an unclean close with an auth-failure code
C4_Witness ==
  /\ last.op = "close" /\ last.auth /\ ~last.wasClean /\ last.ran
  /\ heap.wsRef = 0

\* ------------------------------------------------------------------------
\* C5: an unclean close with a code outside the auth-failure set, handled on
\* the current transport while the view is mounted, the feed enabled and
\* reconnectAttempts < 5, schedules exactly one reconnect timer and increases
\* reconnectAttempts by exactly 1.
\* ------------------------------------------------------------------------
C5_AbnormalCloseSchedulesOne ==
  [][ (/\ last'.op = "close" /\ ~last'.wasClean /\ ~last'.auth /\ last'.ran
       /\ mounted /\ enabled
       /\ heap.reconnectAttemptsRef < MAX_RECONNECT_ATTEMPTS) =>
        /\ SchedulesOneReconnect
        /\ heap'.reconnectAttemptsRef = heap.reconnectAttemptsRef + 1 ]_vars

\* onclose has just handled the third abnormal close in a row
C5_Witness ==
  /\ last.op = "close" /\ ~last.wasClean /\ ~last.auth /\ last.ran
  /\ mounted /\ enabled
  /\ heap.reconnectAttemptsRef = 3
  /\ \E t \in ReconnectTimers(heap) : t.id = heap.reconnectTimeoutRef

\* ------------------------------------------------------------------------
\* C6: the k-th consecutive abnormal close (reconnectAttempts = k - 1 when it
\* arrives) schedules its reconnect with a delay of 1000 * 2^(k-1) ms, i.e.
\* 1000, 2000, 4000, 8000, 16000 ms from reconnectAttempts = 0.
\* ------------------------------------------------------------------------
C6_DelaysStartAtInitial ==
  [][ \A t \in Pending(heap') \ Pending(heap) :
        t.kind = "reconnect" =>
          t.delay = INITIAL_RECONNECT_DELAY_MS * Pow2(heap.reconnectAttemptsRef)
    ]_vars

\* ------------------------------------------------------------------------
\* C7: once reconnectAttempts has reached 5 without a successful open, no
\* reconnect is scheduled, no transport is created, and the give-up
\* notification is emitted at most once until the next successful open,
\* however inputs and timers evolve.
\* ------------------------------------------------------------------------
C7_GiveUpOnce ==
  [][ heap.reconnectAttemptsRef = MAX_RECONNECT_ATTEMPTS =>
        /\ ~CreatesSocket
        /\ ReconnectTimers(heap') \subseteq ReconnectTimers(heap)
        /\ GiveUps' <= 1 ]_vars

\* ------------------------------------------------------------------------
\* C8: when the feed is disabled while the view stays mounted, the transport
\* is closed and the reconnect and keepalive timers are cleared, and while the
\* feed stays disabled no transport is created, no ping is sent and no event
\* or notification is appended.
\* ------------------------------------------------------------------------
C8_DisableStops ==
  [][ /\ (mounted' /\ enabled /\ ~enabled') =>
           /\ Live(heap') = {}
           /\ ReconnectTimers(heap') = {}
           /\ heap'.intervals = {}
      /\ (mounted' /\ ~enabled /\ ~enabled') =>
           /\ ~CreatesSocket
           /\ Silent ]_vars

\* ------------------------------------------------------------------------
\* C9: when the view unmounts, every pending reconnect timer and the keepalive
\* timer are cancelled and the transport is closed; from then on no transport
\* is created, no frame is sent and nothing is dispatched.
\* ------------------------------------------------------------------------
C9_UnmountStops ==
  [][ /\ (mounted /\ ~mounted') =>
           /\ Pending(heap') = {}
           /\ heap'.intervals = {}
           /\ heap'.wsRef = 0
           /\ Live(heap') = {}
      /\ ~mounted =>
           /\ ~CreatesSocket
           /\ Silent ]_vars

\* ------------------------------------------------------------------------
\* C10: a transport is created only while the feed is enabled, the store's
\* token is non-null, isAuthenticated is true and the view is mounted.
\* ------------------------------------------------------------------------
C10_CreateOnlyWhenEligible ==
  [][ CreatesSocket =>
        mounted /\ enabled /\ token # NoToken /\ isAuthenticated ]_vars

\* connect() called by the timer t passes its guards and reaches the
\* constructor
ReachesConstructor(t) ==
  /\ heap.isMountedRef
  /\ t.env.enabled /\ t.env.isAuthenticated /\ t.env.token # NoToken
  /\ ~heap.isConnectingRef
  /\ ~RefIsLive(heap)
  /\ heap.reconnectAttemptsRef < MAX_RECONNECT_ATTEMPTS

\* the timer whose callback ran in this step
FiredTimers == IF last'.op \in TimerOps
               THEN Pending(heap) \ Pending(heap') ELSE {}

\* ------------------------------------------------------------------------
\* C11: when new WebSocket throws inside connect() while reconnectAttempts < 5
\* the failure is handled like an abnormal closure: reconnectAttempts is
\* incremented and one reconnect timer is scheduled.
\* ------------------------------------------------------------------------
C11_ConstructorFailureRetries ==
  [][ \A t \in FiredTimers :
        (ReachesConstructor(t) /\ ~urlOk) =>
          /\ SchedulesOneReconnect
          /\ heap'.reconnectAttemptsRef = heap.reconnectAttemptsRef + 1 ]_vars

\* a close event is delivered to a transport that is not the current one
StaleClose ==
  /\ last'.op = "close"
  /\ \E s \in DOMAIN heap.sockets :
       /\ s # heap.wsRef
       /\ heap.sockets[s].readyState # "CLOSED"
       /\ s \notin DOMAIN heap'.sockets \/ heap'.sockets[s].readyState = "CLOSED"

\* ------------------------------------------------------------------------
\* C12: a transport torn down by cleanup() or replaced by connect() has no
\* effect afterwards.  It has no onclose handler and is neither CONNECTING nor
\* OPEN, so no open or message event of it is delivered; and its late close
\* event leaves the current handle reference, reconnectAttempts, the reconnect
\* and keepalive timers, the event buffer and the notification feed as they
\* are and sends nothing.
\* ------------------------------------------------------------------------
C12_StaleCallbacksInert ==
  /\ [](\A s \in DOMAIN heap.sockets :
          s # heap.wsRef =>
            /\ ~heap.sockets[s].onclose
            /\ heap.sockets[s].readyState \notin LiveStates)
  /\ [][ StaleClose =>
           /\ heap'.wsRef = heap.wsRef
           /\ heap'.reconnectAttemptsRef = heap.reconnectAttemptsRef
           /\ heap'.timers = heap.timers
           /\ heap'.reconnectTimeoutRef = heap.reconnectTimeoutRef
           /\ heap'.pingIntervalRef = heap.pingIntervalRef
           /\ heap'.intervals = heap.intervals
           /\ Silent ]_vars

\* the close event of a replaced transport has just been delivered while its
\* successor is CONNECTING
C12_Witness ==
  /\ last.op = "close" /\ ~last.ran
  /\ heap.wsRef # 0 /\ heap.sockets[heap.wsRef].readyState = "CONNECTING"

\* the current transport goes from CONNECTING to OPEN in this step
CurrentOpens ==
  /\ heap.wsRef # 0
  /\ heap.sockets[heap.wsRef].readyState = "CONNECTING"
  /\ heap.wsRef \in DOMAIN heap'.sockets
  /\ heap'.sockets[heap.wsRef].readyState = "OPEN"

\* the 'Live events connected' success notifications in a feed
ConnectedNotifs(nt) ==
  Cardinality({i \in DOMAIN nt : Feed(nt)[i] = [type |-> "success",
                                                message |-> CONNECTED]})

\* ------------------------------------------------------------------------
\* C13: each transition of the current transport into OPEN resets
\* reconnectAttempts to 0, starts the keepalive timer and appends exactly one
\* 'Live events connected' success notification; no other step appends one.
\* ------------------------------------------------------------------------
C13_OpenResetsAndNotifiesOnce ==
  [][ /\ CurrentOpens =>
           /\ heap'.reconnectAttemptsRef = 0
           /\ heap'.pingIntervalRef # 0
           /\ heap'.pingIntervalRef \in heap'.intervals
           /\ heap'.wsRef = heap.wsRef
           /\ Feed(notifications') =
                Append(Feed(notifications),
                       [type |-> "success", message |-> CONNECTED])
      /\ ~CurrentOpens =>
           ConnectedNotifs(notifications') <= ConnectedNotifs(notifications)
    ]_vars

\* a transport has just opened for the second time
C13_Witness ==
  /\ last.op = "open" /\ last.ran
  /\ heap.wsRef # 0 /\ heap.sockets[heap.wsRef].readyState = "OPEN"
  /\ heap.reconnectAttemptsRef = 0
  /\ heap.pingIntervalRef \in heap.intervals
  /\ ConnectedNotifs(notifications) = 2

\* the hook has given up: reconnectAttempts is 5, the give-up notification
\* was emitted, and no transport is left
GaveUp ==
  /\ heap.reconnectAttemptsRef = MAX_RECONNECT_ATTEMPTS
  /\ GiveUps >= 1
  /\ heap.wsRef = 0
  /\ DOMAIN heap.sockets = {}

\* ------------------------------------------------------------------------
\* C14: from the gave-up state, re-enabling the feed or changing the token
\* re-arms the hook: the delayed connect of the new render, the only timer
\* then pending, creates a transport and the retry budget is available again.
\* ------------------------------------------------------------------------
C14_ReArmAfterGiveUp ==
  [][ \A t \in FiredTimers :
        (/\ t.kind = "connectDelay"
         /\ GaveUp
         /\ Len(heap.timers) = 1
         /\ heap.isMountedRef
         /\ t.env.enabled /\ t.env.isAuthenticated /\ t.env.token # NoToken
         /\ urlOk) =>
          /\ CreatesSocket
          /\ heap'.reconnectAttemptsRef < MAX_RECONNECT_ATTEMPTS ]_vars

\* ------------------------------------------------------------------------
\* C15: after a close with an auth-failure code the hook is closed, with no
\* transport and no timer, unless the delayed connect of a new render is
\* pending; and from the closed state the delayed connect of a render with
\* the feed enabled and a token creates a transport.
\* ------------------------------------------------------------------------
C15_AuthClosedUntilInputsChange ==
  /\ [][ (/\ last'.op = "close" /\ last'.auth /\ last'.ran
          /\ \A t \in Pending(heap) : t.kind # "connectDelay") =>
           /\ heap'.wsRef = 0
           /\ Live(heap') = {}
           /\ Pending(heap') = {}
           /\ heap'.intervals = {} ]_vars
  /\ [][ \A t \in FiredTimers :
           (/\ t.kind = "connectDelay"
            /\ heap.wsRef = 0 /\ DOMAIN heap.sockets = {}
            /\ Len(heap.timers) = 1
            /\ heap.reconnectAttemptsRef < MAX_RECONNECT_ATTEMPTS
            /\ heap.isMountedRef
            /\ t.env.enabled /\ t.env.isAuthenticated /\ t.env.token # NoToken
            /\ urlOk) =>
             CreatesSocket ]_vars

\* ------------------------------------------------------------------------
\* C16: in every reachable state an active keepalive timer implies that the
\* current transport is open (OPEN, or in the closing handshake whose close
\* event has not been delivered yet), at most one keepalive timer is active,
\* and every 'ping' of a step is sent on the current transport while it is
\* OPEN.
\* ------------------------------------------------------------------------
C16_KeepaliveOnlyWhileOpen ==
  /\ [](heap.intervals # {} =>
          /\ heap.wsRef # 0
          /\ heap.sockets[heap.wsRef].readyState \in {"OPEN", "CLOSING"})
  /\ [](Cardinality(heap.intervals) <= 1)
  /\ [][ \A i \in DOMAIN last'.sent :
           /\ last'.sent[i] = heap.wsRef
           /\ heap.sockets[heap.wsRef].readyState = "OPEN" ]_vars

\* ------------------------------------------------------------------------
\* Inbound frames on an open transport.  The message handlers of the two
\* hooks are applied to every frame of FrameInputs, starting from the state
\* the reconnecting hook is in once its first transport has opened.
\* ------------------------------------------------------------------------
FrameTypes == {UNDEF, "", "heartbeat", "connected", "pong", "risk_alert"}
FrameTimestamps == {UNDEF, "T"}
FrameSeverities == {UNDEF, "", "high", "critical", "urgent"}
FrameMessages == {UNDEF, "m"}

\* a frame with a payload whose optional fields are all absent or all given
PayloadFrame(type, ts, sev, msg, rest) ==
  IF rest
  THEN Frame("value", type, ts, TRUE, "id1", "act", sev, "u1", "tgt", msg,
             "meta")
  ELSE Frame("value", type, ts, TRUE, UNDEF, UNDEF, sev, UNDEF, UNDEF, msg,
             UNDEF)

FrameInputs ==
  {BareFrame("throws", UNDEF), BareFrame("null", UNDEF)}
  \cup {[BareFrame("value", ty) EXCEPT !.timestamp = ts] :
          ty \in FrameTypes, ts \in FrameTimestamps}
  \cup {PayloadFrame(ty, ts, sev, msg, FALSE) :
          ty \in FrameTypes, ts \in FrameTimestamps, sev \in FrameSeverities,
          msg \in FrameMessages}
  \cup {PayloadFrame(ty, "T", sev, "m", TRUE) :
          ty \in {"heartbeat", "risk_alert"}, sev \in {UNDEF, "critical"}}

\* the hook after mount, the delayed connect and the open event
OpenCtx ==
  LET h0 == mainEffect(InitialHeap, Env("tokA", TRUE, TRUE))
      t == h0.timers[1]
      c1 == connect(Ctx([h0 EXCEPT !.timers = clearTimeout(@, t.id)],
                        << >>, << >>), t.env)
      s == c1.h.wsRef
  IN onopen([c1 EXCEPT !.h.sockets[s].readyState = "OPEN"], s)

FrameInit ==
  /\ mounted = TRUE /\ enabled = TRUE
  /\ token = "tokA" /\ isAuthenticated = TRUE
  /\ urlOk = TRUE
  /\ renders = 0
  /\ heap = Collect(OpenCtx.h)
  /\ recentEvents = OpenCtx.ev
  /\ notifications = OpenCtx.nt
  /\ last = [op |-> "open", hook |-> "reconnecting", sock |-> heap.wsRef,
             frame |-> BareFrame("value", UNDEF), sent |-> << >>]

\* the handler of hook has processed frame f received on socket s
FrameCommit(c, hook, s, f) ==
  /\ Len(c.nt) <= MaxNotifs
  /\ Len(c.ev) <= MaxEvents
  /\ heap' = Collect(c.h)
  /\ recentEvents' = c.ev
  /\ notifications' = c.nt
  /\ last' = [op |-> "message", hook |-> hook, sock |-> s, frame |-> f,
              sent |-> c.sn]
  /\ UNCHANGED External

\* a message event on the open transport of the reconnecting hook
ReceiveFrame ==
  \E s \in DOMAIN heap.sockets, f \in FrameInputs :
    /\ heap.sockets[s].readyState = "OPEN"
    /\ heap.sockets[s].onmessage
    /\ FrameCommit(onmessage(Here, s, f), "reconnecting", s, f)

\* the same message event handled by the fixed-delay hook
ReceiveFrameFixed ==
  \E s \in DOMAIN heap.sockets, f \in FrameInputs :
    /\ heap.sockets[s].readyState = "OPEN"
    /\ FrameCommit(onmessageFixed(Here, s, f), "fixed", s, f)

FrameNext ==
  \/ ReceiveFrame
  \/ ReceiveFrameFixed

FrameSpec == FrameInit /\ [][FrameNext]_vars

\* ------------------------------------------------------------------------
\* Vocabulary of the properties about frames
\* ------------------------------------------------------------------------
ControlTypes == {"heartbeat", "connected", "pong"}

\* the step is the handling of a frame by the given hook
Handles(hook) == last'.op = "message" /\ last'.hook = hook

\* the frame is parseable, is not a control frame and carries a type and a
\* payload
IsEventFrame(f) ==
  /\ f.parse = "value"
  /\ f.type \notin ControlTypes
  /\ ~Falsy(f.type)
  /\ f.hasPayload

\* the step left the hook and the store as they were and sent nothing
NoEffect ==
  /\ heap' = heap
  /\ recentEvents' = recentEvents
  /\ notifications' = notifications
  /\ last'.sent = << >>

\* ------------------------------------------------------------------------
\* C17: a frame that is not valid JSON, or whose fields cannot be read,
\* changes nothing: the transport stays OPEN, reconnectAttempts, the timers,
\* the event buffer and the notification feed are unchanged and nothing is
\* sent; a valid event frame received after it is still appended.
\* ------------------------------------------------------------------------
C17_UnparseableFrameIgnored ==
  /\ [][ (Handles("reconnecting") /\ last'.frame.parse # "value") =>
           NoEffect ]_vars
  /\ [][ (/\ last.op = "message" /\ last.frame.parse # "value"
          /\ Handles("reconnecting") /\ IsEventFrame(last'.frame)) =>
           Len(recentEvents') = Len(recentEvents) + 1 ]_vars

\* a frame that is not JSON has just been handled on the open transport
C17_Witness ==
  /\ last.op = "message" /\ last.hook = "reconnecting"
  /\ last.frame.parse = "throws"
  /\ heap.wsRef # 0 /\ heap.sockets[heap.wsRef].readyState = "OPEN"
  /\ heap.pingIntervalRef \in heap.intervals

\* ------------------------------------------------------------------------
\* C18: in both hooks a frame of type heartbeat causes exactly one 'ping' on
\* the transport that received it, a frame of type connected or pong causes no
\* outbound frame, and none of the three appends an event or a notification,
\* with or without a payload.
\* ------------------------------------------------------------------------
C18_ControlFramesConsumed ==
  [][ (/\ last'.op = "message"
       /\ last'.frame.parse = "value"
       /\ last'.frame.type \in ControlTypes) =>
        /\ heap' = heap
        /\ recentEvents' = recentEvents
        /\ notifications' = notifications
        /\ last'.sent = IF last'.frame.type = "heartbeat"
                        THEN <<last'.sock>> ELSE << >> ]_vars

\* a heartbeat frame carrying a critical payload has just been answered
C18_Witness ==
  /\ last.op = "message" /\ last.hook = "reconnecting"
  /\ last.frame.type = "heartbeat"
  /\ last.frame.hasPayload /\ last.frame.severity = "critical"
  /\ last.sent = <<heap.wsRef>>
  /\ recentEvents = << >>

\* ------------------------------------------------------------------------
\* C19: a parseable frame appends exactly one event if and only if it is not
\* a control frame and carries both a type and a payload; a frame other than
\* a control frame that misses its type or its payload appends nothing, emits
\* no notification, sends nothing and leaves the connection state unchanged.
\* ------------------------------------------------------------------------
C19_EventIffTypeAndPayload ==
  [][ (Handles("reconnecting") /\ last'.frame.parse = "value") =>
        /\ IsEventFrame(last'.frame) =>
             /\ Len(recentEvents') = Len(recentEvents) + 1
             /\ recentEvents'[1].type = last'.frame.type
             /\ SubSeq(recentEvents', 2, Len(recentEvents')) = recentEvents
        /\ ~IsEventFrame(last'.frame) => recentEvents' = recentEvents
        /\ (/\ last'.frame.type \notin ControlTypes
            /\ ~IsEventFrame(last'.frame)) => NoEffect ]_vars

\* a frame with a type and no payload has just been dropped
C19_Witness ==
  /\ last.op = "message" /\ last.hook = "reconnecting"
  /\ last.frame.parse = "value"
  /\ last.frame.type = "risk_alert" /\ ~last.frame.hasPayload
  /\ recentEvents = << >>

\* ------------------------------------------------------------------------
\* C20: every event in the event buffer has type, severity, message and
\* timestamp populated.
\* ------------------------------------------------------------------------
C20_EventFieldsPopulated ==
  \A i \in DOMAIN recentEvents :
    /\ ~Falsy(recentEvents[i].type)
    /\ ~Falsy(recentEvents[i].severity)
    /\ ~Falsy(recentEvents[i].message)
    /\ ~Falsy(recentEvents[i].timestamp)

\* the severities of DashboardEvent
Severities == {"info", "warning", "high", "critical"}

\* ------------------------------------------------------------------------
\* C21: every event in the event buffer has a severity in the closed set
\* {info, warning, high, critical}, whatever the frame's payload carried.
\* ------------------------------------------------------------------------
C21_SeverityInClosedSet ==
  \A i \in DOMAIN recentEvents : recentEvents[i].severity \in Severities

\* the field is absent from the payload (or empty, which || treats alike)
Absent(x) == x = UNDEF \/ x = "" \/ x = NULL

\* ------------------------------------------------------------------------
\* C22: the event appended for a frame is the reference mapping of the frame:
\* type and timestamp are the frame's; id is the payload's or a generated one;
\* action and message are the payload's or else the type; severity is the
\* payload's or else 'info'; actor_id is the payload's or else ''; target and
\* metadata are the payload's or else null.
\* ------------------------------------------------------------------------
C22_EventIsReferenceMapping ==
  [][ (Handles("reconnecting") /\ IsEventFrame(last'.frame)) =>
        LET f == last'.frame
            e == recentEvents'[1]
        IN /\ e.type = f.type
           /\ e.timestamp = f.timestamp
           /\ e.id = IF Absent(f.id) THEN UUID ELSE f.id
           /\ e.action = IF Absent(f.action) THEN f.type ELSE f.action
           /\ e.severity = IF Absent(f.severity) THEN "info" ELSE f.severity
           /\ e.message = IF Absent(f.message) THEN f.type ELSE f.message
           /\ e.actor_id = IF Absent(f.actor_id) THEN "" ELSE f.actor_id
           /\ e.target = IF Absent(f.target) THEN NULL ELSE f.target
           /\ e.metadata = IF Absent(f.metadata) THEN NULL ELSE f.metadata
           /\ DOMAIN e = {"id", "type", "action", "severity", "actor_id",
                          "target", "message", "timestamp", "metadata"} ]_vars

\* an event whose payload gave no action, message or metadata was appended
C22_Witness ==
  /\ last.op = "message" /\ last.hook = "reconnecting"
  /\ IsEventFrame(last.frame)
  /\ last.frame.action = UNDEF /\ last.frame.message = UNDEF
  /\ recentEvents # << >>
  /\ recentEvents[1].action = "risk_alert"
  /\ recentEvents[1].message = "risk_alert"
  /\ recentEvents[1].metadata = NULL

\* ------------------------------------------------------------------------
\* C23: each appended event adds exactly one notification if its severity is
\* high (kind warning) or critical (kind error), with the event's message, and
\* none otherwise; the event is in the buffer when the notification is added.
\* ------------------------------------------------------------------------
C23_NotificationPerSevereEvent ==
  [][ (Handles("reconnecting") /\ IsEventFrame(last'.frame)) =>
        LET e == recentEvents'[1] IN
        /\ Len(recentEvents') = Len(recentEvents) + 1
        /\ e.severity = "critical" =>
             Feed(notifications') =
               Append(Feed(notifications),
                      [type |-> "error", message |-> e.message])
        /\ e.severity = "high" =>
             Feed(notifications') =
               Append(Feed(notifications),
                      [type |-> "warning", message |-> e.message])
        /\ e.severity \notin {"high", "critical"} =>
             notifications' = notifications ]_vars

\* an event of severity high has just been appended and notified as a warning
C23_Witness ==
  /\ last.op = "message" /\ last.hook = "reconnecting"
  /\ IsEventFrame(last.frame) /\ last.frame.severity = "high"
  /\ recentEvents # << >> /\ recentEvents[1].severity = "high"
  /\ Feed(notifications)[Len(notifications)] =
       [type |-> "warning", message |-> recentEvents[1].message]

\* ------------------------------------------------------------------------
\* The event buffer under addEvent and clearEvents.  The events dispatched
\* since the last clearEvents are numbered 1, 2, ... in order of receipt (the
\* number is their id), and carry timestamps that decrease with the order of
\* receipt, so that an ordering by timestamp would show.
\* ------------------------------------------------------------------------
MaxAppends == 102

BufferEvent(k) ==
  [dashboardEvent(PayloadFrame("risk_alert", "T", UNDEF, "m", TRUE))
     EXCEPT !.id = k, !.timestamp = MaxAppends + 1 - k]

BufferInit ==
  /\ mounted = TRUE /\ enabled = TRUE
  /\ token = "tokA" /\ isAuthenticated = TRUE
  /\ urlOk = TRUE
  /\ renders = 0
  /\ heap = Collect(OpenCtx.h)
  /\ recentEvents = OpenCtx.ev
  /\ notifications = OpenCtx.nt
  /\ last = [op |-> "open", n |-> 0]

\* dispatch(addEvent(e)) for the next event received
AddEvent ==
  /\ last.n < MaxAppends
  /\ recentEvents' = addEvent(recentEvents, BufferEvent(last.n + 1))
  /\ last' = [op |-> "addEvent", n |-> last.n + 1]
  /\ UNCHANGED <<External, heap, notifications>>

\* dispatch(clearEvents())
BufferClearEvents ==
  /\ recentEvents' = clearEvents(recentEvents)
  /\ last' = [op |-> "clearEvents", n |-> 0]
  /\ UNCHANGED <<External, heap, notifications>>

BufferNext ==
  \/ AddEvent
  \/ BufferClearEvents

BufferSpec == BufferInit /\ [][BufferNext]_vars

\* ------------------------------------------------------------------------
\* C24: the event buffer holds the events appended since the last clearEvents,
\* most recent first whatever their timestamps, truncated to the 100 most
\* recent; its length never exceeds 100.
\* ------------------------------------------------------------------------
C24_BufferIsLast100NewestFirst ==
  /\ Len(recentEvents) <= 100
  /\ recentEvents = [i \in 1..Min(last.n, 100) |-> BufferEvent(last.n + 1 - i)]

\* 102 events were appended: the buffer holds events 102 down to 3
C24_Witness ==
  /\ last.n = 102
  /\ Len(recentEvents) = 100
  /\ recentEvents[1].id = 102
  /\ recentEvents[100].id = 3

\* ------------------------------------------------------------------------
\* The retry loop with the view mounted, the feed enabled and the credentials
\* unchanged: no render and no unmount happens.  The browser runs every timer
\* that is due, and every connection attempt is settled: it opens or fails.
\* ------------------------------------------------------------------------
RetryInit ==
  /\ Init
  /\ enabled /\ token # NoToken /\ urlOk

RetryNext ==
  \/ TimerFires
  \/ PingTick
  \/ SocketOpens
  \/ SocketMessage
  \/ SocketClosing
  \/ SocketCloses

\* a CONNECTING transport opens or fails
ConnectingSettles ==
  \/ SocketOpens
  \/ /\ \A s \in DOMAIN heap.sockets : heap.sockets[s].readyState = "CONNECTING"
     /\ SocketCloses

RetrySpec ==
  /\ RetryInit
  /\ [][RetryNext]_vars
  /\ WF_vars(TimerFires)
  /\ WF_vars(ConnectingSettles)

\* ws.onclose has just handled an abnormal close
AbnormalCloseHandled ==
  /\ last.op = "close" /\ last.ran
  /\ ~last.wasClean /\ ~last.auth

\* the reconnect timer has just created a transport or given up
ReconnectAttempted ==
  /\ last.op = "reconnect" /\ last.ran
  /\ \/ RefIsLive(heap)
     \/ /\ notifications # << >>
        /\ notifications[Len(notifications)].message = GIVE_UP

\* ------------------------------------------------------------------------
\* C25: with the view mounted, the feed enabled and the credentials
\* unchanged, every abnormal close is eventually followed by the creation of
\* a transport or by the give-up notification (the notification feed of the
\* model having room for it); and unless some attempt reaches OPEN the hook
\* ends in the gave-up state.
\* ------------------------------------------------------------------------
C25_RetryLoopTerminates ==
  /\ (AbnormalCloseHandled /\ Len(notifications) < MaxNotifs)
       ~> ReconnectAttempted
  /\ <>(last.op = "open" \/ GaveUp)

\* the fifth reconnect timer has just fired and the hook gave up
C25_Witness ==
  /\ last.op = "reconnect" /\ last.ran
  /\ GaveUp
  /\ heap.timers = << >>
  /\ Feed(notifications) = <<[type |-> "warning", message |-> GIVE_UP]>>

\* the largest value of reconnectAttempts getReconnectDelay is evaluated for
MaxDelayArg == 20

\* the delays the claim lists for n = 0..5
DelayTable == <<1000, 2000, 4000, 8000, 16000, 30000>>

\* ------------------------------------------------------------------------
\* C26: getReconnectDelay returns min(1000 * 2^n, 30000) for the value n of
\* reconnectAttempts when it is called: 1000, 2000, 4000, 8000, 16000, 30000
\* for n = 0..5; it is non-decreasing in n and never exceeds 30000.  Every
\* reconnect timer the hook schedules has the delay of the table for the
\* value of reconnectAttempts at the call.
\* ------------------------------------------------------------------------
C26_DelayIsCappedDoubling ==
  /\ [](/\ \A n \in 0..5 : getReconnectDelay(n) = DelayTable[n + 1]
        /\ \A n \in 0..MaxDelayArg :
             /\ getReconnectDelay(n) <= 30000
             /\ n > 0 => getReconnectDelay(n - 1) <= getReconnectDelay(n)
             /\ n >= 5 => getReconnectDelay(n) = 30000)
  /\ [][ \A t \in Pending(heap') \ Pending(heap) :
           t.kind = "reconnect" =>
             /\ heap'.reconnectAttemptsRef \in 1..5
             /\ t.delay = DelayTable[heap'.reconnectAttemptsRef + 1] ]_vars

\* the fifth abnormal close has scheduled its reconnect with the capped delay
C26_Witness ==
  /\ last.op = "close" /\ last.ran
  /\ heap.reconnectAttemptsRef = 5
  /\ \E t \in ReconnectTimers(heap) :
       t.id = heap.reconnectTimeoutRef /\ t.delay = 30000

\* ------------------------------------------------------------------------
\* C27: when the token changes from one non-null value to another while the
\* feed is enabled and the view mounted, in any connection state, eligibility
\* is re-evaluated: once the delayed connect of the new render has run the
\* hook holds a transport created with the new token, and no transport is
\* created with a token other than the current one.
\* ------------------------------------------------------------------------
C27_TokenChangeReconnects ==
  /\ [][ (mounted /\ enabled /\ isAuthenticated /\ token # NoToken) =>
           \A i \in DOMAIN heap'.sockets \ DOMAIN heap.sockets :
             heap'.sockets[i].env.token = token ]_vars
  /\ [][ \A t \in FiredTimers :
           (/\ t.kind = "connectDelay"
            /\ mounted /\ enabled /\ isAuthenticated
            /\ token # NoToken /\ t.env.token = token
            /\ urlOk
            /\ heap.reconnectAttemptsRef < MAX_RECONNECT_ATTEMPTS) =>
             /\ RefIsLive(heap')
             /\ heap'.sockets[heap'.wsRef].env.token = token ]_vars

\* ------------------------------------------------------------------------
\* C29: in every reachable state 0 <= reconnectAttempts <= 5
\* (MAX_RECONNECT_ATTEMPTS), and a transport is only ever created while
\* reconnectAttempts < 5.
\* ------------------------------------------------------------------------
C29_AttemptsBounded ==
  /\ [](heap.reconnectAttemptsRef \in 0..5)
  /\ [][ CreatesSocket => heap.reconnectAttemptsRef < 5 ]_vars

\* the limit has been reached and connect() has refused to create a transport
C29_Witness ==
  /\ heap.reconnectAttemptsRef = 5
  /\ last.op = "reconnect" /\ last.ran
  /\ DOMAIN heap.sockets = {}
  /\ GaveUp

\* ------------------------------------------------------------------------
\* C30: in every reachable state at most one reconnect timer is pending and
\* it is the one recorded in reconnectTimeoutRef, so that cleanup() cancels
\* every pending reconnect; no reconnect timer is pending while a transport
\* is CONNECTING or OPEN.
\* ------------------------------------------------------------------------
C30_OneReconnectTimer ==
  /\ Cardinality(ReconnectTimers(heap)) <= 1
  /\ \A t \in ReconnectTimers(heap) : t.id = heap.reconnectTimeoutRef
  /\ ReconnectTimers(cleanup(heap)) = {}
  /\ Live(heap) # {} => ReconnectTimers(heap) = {}

\* ------------------------------------------------------------------------
\* The fixed-delay hook (frontend/src/hooks/useWebSocket.ts).  It has two
\* refs, wsRef and reconnectTimeoutRef, no mounted flag and no attempt
\* counter; its handlers stay attached to a handle for the handle's life.
\* ------------------------------------------------------------------------

FIXED_RECONNECT_DELAY_MS == 5000

FixedInitialHeap ==
  [wsRef |-> 0, reconnectTimeoutRef |-> 0, sockets |-> [i \in {} |-> 0],
   timers |-> << >>, pingInterval |-> FALSE]

\* A CLOSED socket the hook no longer references takes no further part.
FixedCollect(h) ==
  LET keep == {i \in DOMAIN h.sockets :
                 i = h.wsRef \/ h.sockets[i].readyState # "CLOSED"}
  IN [h EXCEPT !.sockets = [i \in keep |-> h.sockets[i]]]

FixedFreshTimerId(h) ==
  LET used == {t.id : t \in Pending(h)} \cup {h.reconnectTimeoutRef}
  IN Least((1..(Cardinality(used) + 1)) \ used)

\* wsRef.current.close() called by the hook
closeFixed(sock) == [wsClose(sock) EXCEPT !.closeCalled = TRUE]

\* connect() of the render whose closure is env
connectFixed(c, env) ==
  LET h == c.h IN
  IF env.token = NoToken \/ ~env.enabled THEN c
  ELSE
    LET h1 == IF h.wsRef # 0
              THEN [h EXCEPT !.sockets[h.wsRef] = closeFixed(@)]
              ELSE h
        id == FreshSocketId(h1)
        ws == [readyState |-> "CONNECTING", env |-> env, opened |-> FALSE,
               closeCalled |-> FALSE]
    IN IF urlOk
       THEN [c EXCEPT !.h = [h1 EXCEPT !.sockets = (id :> ws) @@ @,
                                       !.wsRef = id]]
       ELSE [c EXCEPT !.h = h1]

\* ws.onopen
onopenFixed(c, s) == [c EXCEPT !.nt = addNotification(@, "success", CONNECTED)]

\* ws.onclose of socket s
oncloseFixed(c, s, wasClean) ==
  LET env == c.h.sockets[s].env
      h1 == [c.h EXCEPT !.wsRef = 0]
  IN IF env.enabled /\ ~wasClean
     THEN LET t == [id |-> FixedFreshTimerId(h1), kind |-> "reconnect",
                    env |-> env, delay |-> FIXED_RECONNECT_DELAY_MS]
          IN [c EXCEPT !.h = [h1 EXCEPT !.timers = Append(@, t),
                                        !.reconnectTimeoutRef = t.id]]
     ELSE [c EXCEPT !.h = h1]

\* the cleanup returned by the connect effect
fixedEffectCleanup(h) ==
  LET h1 == IF h.reconnectTimeoutRef # 0
            THEN [h EXCEPT !.timers = clearTimeout(@, h.reconnectTimeoutRef)]
            ELSE h
  IN IF h1.wsRef # 0
     THEN [h1 EXCEPT !.sockets[h1.wsRef] = closeFixed(@)]
     ELSE h1

\* the connect effect of the render whose closure is env
fixedEffect(c, env) == IF env.enabled THEN connectFixed(c, env) ELSE c

\* the ping effect of the render whose closure is env, after its cleanup
pingEffect(h, env) == [h EXCEPT !.pingInterval = env.enabled]

\* The task ends: its writes become the state, and last records what the
\* task was, the socket whose event it handled, the close event's wasClean
\* and what the task sent.
FixedCommit(c, op, s, clean) ==
  /\ Len(c.nt) <= MaxNotifs
  /\ Len(c.ev) <= MaxEvents
  /\ heap' = FixedCollect(c.h)
  /\ recentEvents' = c.ev
  /\ notifications' = c.nt
  /\ last' = [op |-> op, sock |-> s, wasClean |-> clean, sent |-> c.sn]

\* A dispatch that writes enabled or token in the store.  While the view is
\* mounted it renders again, and if one of them changed the cleanups of the
\* previous effects run, then the effects of the new render.  After the
\* unmount only the store changes.
FixedRerender(en, tok, auth, op) ==
  /\ renders < MaxRenders
  /\ renders' = renders + 1
  /\ LET env == Env(tok, auth, en)
         h1 == pingEffect(fixedEffectCleanup(heap), env)
     IN FixedCommit(IF mounted /\ <<en, tok>> # <<enabled, token>>
                    THEN fixedEffect(Ctx(h1, recentEvents, notifications),
                                     env)
                    ELSE Here,
                    op, 0, FALSE)
  /\ enabled' = en /\ token' = tok /\ isAuthenticated' = auth
  /\ UNCHANGED <<mounted, urlOk>>

\* dashboardSlice.toggleLiveEvents
FixedToggleLiveEvents ==
  FixedRerender(~enabled, token, isAuthenticated, "toggleLiveEvents")

\* authSlice.setCredentials
FixedSetCredentials ==
  \E t \in Tokens : FixedRerender(enabled, t, TRUE, "setCredentials")

\* authSlice.logout
FixedLogout == FixedRerender(enabled, NoToken, FALSE, "logout")

\* dispatch(clearEvents())
FixedClearEvents ==
  /\ renders < MaxRenders /\ renders' = renders + 1
  /\ FixedCommit([Here EXCEPT !.ev = clearEvents(@)], "clearEvents", 0, FALSE)
  /\ UNCHANGED <<mounted, enabled, token, isAuthenticated, urlOk>>

\* dispatch(removeNotification(id)) for the id of a notification in the list
\* or for one that is not (0)
FixedRemoveNotification ==
  \E id \in NotificationIds(notifications) \cup {0} :
    /\ renders < MaxRenders /\ renders' = renders + 1
    /\ FixedCommit([Here EXCEPT !.nt = removeNotification(@, id)],
                   "removeNotification", 0, FALSE)
    /\ UNCHANGED <<mounted, enabled, token, isAuthenticated, urlOk>>

\* dispatch(clearNotifications())
FixedClearNotifications ==
  /\ renders < MaxRenders /\ renders' = renders + 1
  /\ FixedCommit([Here EXCEPT !.nt = clearNotifications(@)],
                 "clearNotifications", 0, FALSE)
  /\ UNCHANGED <<mounted, enabled, token, isAuthenticated, urlOk>>

\* The owning view unmounts: the cleanups of both effects run.
FixedUnmount ==
  /\ mounted
  /\ mounted' = FALSE
  /\ FixedCommit([Here EXCEPT
                    !.h = [fixedEffectCleanup(heap) EXCEPT
                             !.pingInterval = FALSE]],
                 "unmount", 0, FALSE)
  /\ UNCHANGED <<enabled, token, isAuthenticated, renders, urlOk>>

\* The reconnect timer scheduled first fires (all have the same delay): its
\* callback calls the connect() of the render that created the closed handle.
FixedTimerFires ==
  /\ heap.timers # << >>
  /\ LET t == Head(heap.timers)
         c1 == Ctx([heap EXCEPT !.timers = Tail(@)], recentEvents,
                   notifications)
     IN FixedCommit(connectFixed(c1, t.env), "reconnect", 0, FALSE)
  /\ UNCHANGED External

\* The setInterval callback of the ping effect runs.
FixedPingTick ==
  /\ heap.pingInterval
  /\ FixedCommit(IF ReadyStateOfRef(heap) = "OPEN"
                 THEN [Here EXCEPT !.sn = Append(@, heap.wsRef)]
                 ELSE Here,
                 "pingTick", 0, FALSE)
  /\ UNCHANGED External

FixedSocketOpens ==
  \E s \in DOMAIN heap.sockets :
    /\ heap.sockets[s].readyState = "CONNECTING"
    /\ LET c1 == Ctx([heap EXCEPT !.sockets[s].readyState = "OPEN",
                                  !.sockets[s].opened = TRUE],
                     recentEvents, notifications)
       IN FixedCommit(onopenFixed(c1, s), "open", s, FALSE)
    /\ UNCHANGED External

FixedSocketMessage ==
  \E s \in DOMAIN heap.sockets, f \in Frames :
    /\ heap.sockets[s].readyState = "OPEN"
    /\ FixedCommit(onmessageFixed(Here, s, f), "message", s, FALSE)
    /\ UNCHANGED External

\* The server starts the closing handshake.
FixedSocketClosing ==
  \E s \in DOMAIN heap.sockets :
    /\ heap.sockets[s].readyState = "OPEN"
    /\ FixedCommit([Here EXCEPT !.h.sockets[s].readyState = "CLOSING"],
                   "closing", s, FALSE)
    /\ UNCHANGED External

\* The connection is closed: readyState becomes CLOSED and close is fired.
\* A connection that was never established cannot close cleanly.
FixedSocketCloses ==
  \E s \in DOMAIN heap.sockets, wasClean \in BOOLEAN :
    /\ heap.sockets[s].readyState # "CLOSED"
    /\ wasClean => heap.sockets[s].opened
    /\ LET c1 == Ctx([heap EXCEPT !.sockets[s].readyState = "CLOSED"],
                     recentEvents, notifications)
       IN FixedCommit(oncloseFixed(c1, s, wasClean), "close", s, wasClean)
    /\ UNCHANGED External

\* The state after the first commit of the owning view.
FixedInit ==
  /\ mounted = TRUE
  /\ enabled \in BOOLEAN
  /\ token \in InitialTokens
  /\ isAuthenticated = (token # NoToken)
  /\ urlOk \in BOOLEAN
  /\ renders = 0
  /\ recentEvents = << >>
  /\ notifications = << >>
  /\ LET env == Env(token, isAuthenticated, enabled)
         c == fixedEffect(Ctx(pingEffect(FixedInitialHeap, env), << >>,
                              << >>), env)
     IN heap = c.h
  /\ last = [op |-> "mount", sock |-> 0, wasClean |-> FALSE, sent |-> << >>]

FixedNext ==
  \/ FixedToggleLiveEvents
  \/ FixedSetCredentials
  \/ FixedLogout
  \/ FixedClearEvents
  \/ FixedRemoveNotification
  \/ FixedClearNotifications
  \/ FixedUnmount
  \/ FixedTimerFires
  \/ FixedPingTick
  \/ FixedSocketOpens
  \/ FixedSocketMessage
  \/ FixedSocketClosing
  \/ FixedSocketCloses

FixedSpec == FixedInit /\ [][FixedNext]_vars

\* the step handled the close event of a handle on which the hook had called
\* close() and which it had replaced by a handle that is CONNECTING or OPEN
StaleCloseFixed ==
  /\ last'.op = "close"
  /\ last'.sock # heap.wsRef
  /\ heap.sockets[last'.sock].closeCalled
  /\ RefIsLive(heap)

\* ------------------------------------------------------------------------
\* C28: in the fixed-delay hook, when a handle is closed by the effect
\* cleanup or by connect() and a new handle is created before the old
\* handle's close callback fires, the stale close callback does not affect
\* the new handle: wsRef still refers to the new transport and no reconnect
\* is scheduled because of it; at most one transport is live; and unmount
\* closes the current transport, leaving none live.
\* ------------------------------------------------------------------------
C28_FixedStaleCloseInert ==
  /\ [][ StaleCloseFixed =>
           /\ heap'.wsRef = heap.wsRef
           /\ heap'.timers = heap.timers ]_vars
  /\ [](Cardinality(Live(heap)) <= 1)
  /\ [][ last'.op = "unmount" => Live(heap') = {} ]_vars

====
